---- MODULE Spec2Model ----
(***************************************************************************)
(* Model of internal/module/scalar.go: the translation of the validation   *)
(* rules of a scalar field into a JSON-schema fragment and a required      *)
(* flag, and the rewrite of a regexp/syntax tree into ECMAScript text.     *)
(*                                                                         *)
(* Text is a sequence of one-character strings.  An optional value (a Go   *)
(* pointer or an unset schema attribute) is a sequence of length 0 or 1.   *)
(***************************************************************************)
EXTENDS Integers, Sequences, FiniteSets, TLC

VARIABLES
    pc,          \* position of the call
    scalar,      \* schemaForScalar's scalar argument
    constraints, \* schemaForScalar's constraints argument
    st,          \* locals of schemaForString: schema, schemas, patterns, required
    ret,         \* the returned (schema, required) pair, <<>> while none is returned
    failure,     \* the message of the fatal report that ended the call, <<>> if none
    oracle,      \* the patterns matchesEmptyString was invoked with, in order
    expression,  \* the tree given to writeECMAScriptCompatibleRegexp
    text,        \* what the writer wrote, <<>> before it ran
    probe        \* a document string offered to the returned bytes schema

vars == <<pc, scalar, constraints, st, ret, failure, oracle, expression, text, probe>>

None == <<>>
Some(x) == <<x>>

RECURSIVE Flatten(_)
Flatten(ss) == IF ss = <<>> THEN <<>> ELSE Head(ss) \o Flatten(Tail(ss))

\* The strings of at most n characters of alphabet.
Strings(alphabet, n) == UNION {[1..k -> alphabet] : k \in 0..n}

(***************************************************************************)
(* regexp/syntax trees.  OpOrder lists the operators in the order of the   *)
(* syntax.Op constants, so that OpRank compares as the Go values do.       *)
(***************************************************************************)
OpOrder ==
    << "OpNoMatch", "OpEmptyMatch", "OpLiteral", "OpCharClass", "OpAnyCharNotNL",
       "OpAnyChar", "OpBeginLine", "OpEndLine", "OpBeginText", "OpEndText",
       "OpWordBoundary", "OpNoWordBoundary", "OpCapture", "OpStar", "OpPlus",
       "OpQuest", "OpRepeat", "OpConcat", "OpAlternate" >>

OpRank(op) == CHOOSE i \in 1..Len(OpOrder) : OpOrder[i] = op

Node(op, rune, sub, min, max) ==
    [Op |-> op, Rune |-> rune, Sub |-> sub, Min |-> min, Max |-> max]

Leaf(op) == Node(op, <<>>, <<>>, 0, 0)
Literal(rune) == Node("OpLiteral", rune, <<>>, 0, 0)
CharClass(lo, hi) == Node("OpCharClass", <<lo, hi>>, <<>>, 0, 0)
Unary(op, e) == Node(op, <<>>, <<e>>, 0, 0)
Repeat(min, max, e) == Node("OpRepeat", <<>>, <<e>>, min, max)
Nary(op, sub) == Node(op, <<>>, sub, 0, 0)

Quantifiers == {"OpStar", "OpPlus", "OpQuest", "OpRepeat"}

\* The characters regexp/syntax escapes with a backslash (its `meta` string).
Meta == {"\\", ".", "+", "*", "?", "(", ")", "|", "[", "]", "{", "}", "^", "$"}

Escape(r) == IF r \in Meta THEN <<"\\", r>> ELSE <<r>>

RECURSIVE EscapeAll(_)
EscapeAll(s) == IF s = <<>> THEN <<>> ELSE Escape(Head(s)) \o EscapeAll(Tail(s))

\* regexp.QuoteMeta
QuoteMeta(s) == EscapeAll(s)

Digit(d) == <<"0", "1", "2", "3", "4", "5", "6", "7", "8", "9">>[d + 1]

RECURSIVE ItoaNat(_)
ItoaNat(n) == IF n < 10 THEN <<Digit(n)>> ELSE ItoaNat(n \div 10) \o <<Digit(n % 10)>>

\* strconv.Itoa
Itoa(n) == IF n < 0 THEN <<"-">> \o ItoaNat(-n) ELSE ItoaNat(n)

\* expression.String() for the operators the writer leaves to it.
RegexpString(e) ==
    CASE e.Op = "OpLiteral" -> EscapeAll(e.Rune)
      [] e.Op = "OpCharClass" -> <<"[", e.Rune[1], "-", e.Rune[2], "]">>
      [] e.Op = "OpEmptyMatch" -> <<"(", "?", ":", ")">>
      [] OTHER -> <<>>

NonCapturing(t) == <<"(", "?", ":">> \o t \o <<")">>

\* A writer that groups the operand by its rank alone.
NeedsGroupByRank(sub) == OpRank(sub.Op) > OpRank("OpCapture")

\* Line 246: the operand of a quantifier that is written inside (?: ).
NeedsGroup(sub) ==
    \/ OpRank(sub.Op) > OpRank("OpCapture")
    \/ (sub.Op = "OpLiteral" /\ Len(sub.Rune) > 1)

\* Lines 254-275: the text written after the operand.
QuantifierText(e) ==
    CASE e.Op = "OpStar" -> <<"*">>
      [] e.Op = "OpPlus" -> <<"+">>
      [] e.Op = "OpQuest" -> <<"?">>
      [] e.Op = "OpRepeat" ->
            <<"{">> \o Itoa(e.Min)
            \o (IF e.Max # e.Min
                  THEN <<",">> \o (IF e.Max >= 0 THEN Itoa(e.Max) ELSE <<>>)
                  ELSE <<>>)
            \o <<"}">>
      [] OTHER -> <<>>

\* Writers that group no child, and every nested child, of a concatenation.
ConcatGroupsNone(sub) == FALSE
ConcatGroupsNested(sub) == sub.Op \in {"OpAlternate", "OpConcat"} \cup Quantifiers

\* Line 278: the child of a concatenation that is written inside (?: ).
ConcatGroups(sub) == sub.Op = "OpAlternate"

RECURSIVE writeECMAScriptCompatibleRegexp(_)
writeECMAScriptCompatibleRegexp(e) ==
    CASE e.Op = "OpAnyCharNotNL" -> <<".">>
      [] e.Op = "OpAnyChar" -> <<"[", "\\", "s", "\\", "S", "]">>
      [] e.Op \in {"OpBeginLine", "OpBeginText"} -> <<"^">>
      [] e.Op \in {"OpEndLine", "OpEndText"} -> <<"$">>
      [] e.Op = "OpCapture" ->
            <<"(">> \o writeECMAScriptCompatibleRegexp(e.Sub[1]) \o <<")">>
      [] e.Op \in Quantifiers ->
            (IF NeedsGroup(e.Sub[1])
               THEN NonCapturing(writeECMAScriptCompatibleRegexp(e.Sub[1]))
               ELSE writeECMAScriptCompatibleRegexp(e.Sub[1]))
            \o QuantifierText(e)
      [] e.Op = "OpConcat" ->
            Flatten([i \in 1..Len(e.Sub) |->
                IF ConcatGroups(e.Sub[i])
                  THEN NonCapturing(writeECMAScriptCompatibleRegexp(e.Sub[i]))
                  ELSE writeECMAScriptCompatibleRegexp(e.Sub[i])])
      [] e.Op = "OpAlternate" ->
            Flatten([i \in 1..Len(e.Sub) |->
                (IF i > 1 THEN <<"|">> ELSE <<>>)
                \o writeECMAScriptCompatibleRegexp(e.Sub[i])])
      [] OTHER -> RegexpString(e)

(***************************************************************************)
(* The source dialect's engine: the positions at which a match of e that   *)
(* starts at position i of s may end (positions count the characters       *)
(* before them, 0..Len(s)).  regexp.MatchString searches: it reports a     *)
(* match starting anywhere.                                                *)
(***************************************************************************)
\* The characters of the model in code-point order, for the ranges of a class.
CharOrder ==
    << "\n", "\r", "!", "+", "-", "/", "0", "5", "9", "=", "A", "M", "Z", "_",
       "a", "b", "c", "m", "x", "y", "z" >>

Ord(c) == CHOOSE i \in 1..Len(CharOrder) : CharOrder[i] = c

\* A class's Rune lists its ranges as pairs lo, hi.
InClass(c, rune) ==
    \E k \in 1..(Len(rune) \div 2) : Ord(rune[2 * k - 1]) <= Ord(c) /\ Ord(c) <= Ord(rune[2 * k])

RECURSIVE Ends(_, _, _), EndsAll(_, _, _), EndsWithin(_, _, _, _, _), EndsTimes(_, _, _, _)

\* The ends of a match of e started at any position of from.
EndsAll(e, s, from) == UNION {Ends(e, s, j) : j \in from}

\* seen, and the ends of at most n further matches of e in a row from the
\* positions of new (a subset of seen); n < 0 stands for any number.
EndsWithin(e, s, seen, new, n) ==
    IF n = 0 \/ new = {} THEN seen
    ELSE LET more == EndsAll(e, s, new) \ seen
         IN  EndsWithin(e, s, seen \cup more, more, IF n < 0 THEN n ELSE n - 1)

\* Exactly n matches of e in a row, from the positions from.
EndsTimes(e, s, from, n) ==
    IF n = 0 \/ from = {} THEN from ELSE EndsTimes(e, s, EndsAll(e, s, from), n - 1)

Ends(e, s, i) ==
    CASE e.Op = "OpEmptyMatch" -> {i}
      [] e.Op = "OpLiteral" ->
            IF /\ i + Len(e.Rune) <= Len(s)
               /\ SubSeq(s, i + 1, i + Len(e.Rune)) = e.Rune
              THEN {i + Len(e.Rune)} ELSE {}
      [] e.Op = "OpCharClass" -> IF i < Len(s) /\ InClass(s[i + 1], e.Rune) THEN {i + 1} ELSE {}
      [] e.Op = "OpAnyCharNotNL" -> IF i < Len(s) /\ s[i + 1] # "\n" THEN {i + 1} ELSE {}
      [] e.Op = "OpAnyChar" -> IF i < Len(s) THEN {i + 1} ELSE {}
      [] e.Op = "OpBeginText" -> IF i = 0 THEN {i} ELSE {}
      [] e.Op = "OpEndText" -> IF i = Len(s) THEN {i} ELSE {}
      [] e.Op = "OpBeginLine" -> IF i = 0 \/ s[i] = "\n" THEN {i} ELSE {}
      [] e.Op = "OpEndLine" -> IF i = Len(s) \/ s[i + 1] = "\n" THEN {i} ELSE {}
      [] e.Op = "OpCapture" -> Ends(e.Sub[1], s, i)
      [] e.Op = "OpStar" -> EndsWithin(e.Sub[1], s, {i}, {i}, -1)
      [] e.Op = "OpPlus" ->
            LET once == Ends(e.Sub[1], s, i) IN EndsWithin(e.Sub[1], s, once, once, -1)
      [] e.Op = "OpQuest" -> {i} \cup Ends(e.Sub[1], s, i)
      [] e.Op = "OpRepeat" ->
            LET least == EndsTimes(e.Sub[1], s, {i}, e.Min)
            IN  IF e.Max < 0
                  THEN EndsWithin(e.Sub[1], s, least, least, -1)
                  ELSE IF e.Max < e.Min THEN {}
                  ELSE EndsWithin(e.Sub[1], s, least, least, e.Max - e.Min)
      [] e.Op = "OpConcat" ->
            IF e.Sub = <<>> THEN {i}
            ELSE EndsAll(Nary("OpConcat", Tail(e.Sub)), s, Ends(Head(e.Sub), s, i))
      [] e.Op = "OpAlternate" -> UNION {Ends(e.Sub[k], s, i) : k \in 1..Len(e.Sub)}
      [] OTHER -> {}

\* regexp.MatchString(pattern, s) for a pattern that parsed to e.
MatchString(e, s) == \E i \in 0..Len(s) : Ends(e, s, i) # {}

\* A match of the whole of s.
FullMatch(e, s) == Len(s) \in Ends(e, s, 0)

(***************************************************************************)
(* The target dialect's reading of a pattern text: a quantifier binds to   *)
(* the atom before it, a sequence of quantified atoms is a concatenation,  *)
(* and `|` separates concatenations.  (?: ) groups without capturing.      *)
(* A reading is [ok, node, pos]: pos is the first character not read.      *)
(***************************************************************************)
Read(ok, node, pos) == [ok |-> ok, node |-> node, pos |-> pos]
NoRead == Read(FALSE, Leaf("OpNoMatch"), 0)

IsDigit(c) == c \in {"0", "1", "2", "3", "4", "5", "6", "7", "8", "9"}
DigitValue(c) == CHOOSE d \in 0..9 : Digit(d) = c
At(t, p) == IF p >= 1 /\ p <= Len(t) THEN t[p] ELSE ""

RECURSIVE ReadNumber(_, _, _)
\* The digits from position p on, as [ok, value, pos]; acc is the value so far.
ReadNumber(t, p, acc) ==
    IF IsDigit(At(t, p))
      THEN ReadNumber(t, p + 1, Some(10 * (IF acc = None THEN 0 ELSE acc[1]) + DigitValue(t[p])))
      ELSE [ok |-> acc # None, value |-> IF acc = None THEN 0 ELSE acc[1], pos |-> p]

\* {min}  {min,}  {min,max} at position p, applied to atom.
ReadBraces(t, p, atom) ==
    LET lo == ReadNumber(t, p + 1, None)
    IN  IF ~lo.ok THEN NoRead
        ELSE IF At(t, lo.pos) = "}" THEN Read(TRUE, Repeat(lo.value, lo.value, atom), lo.pos + 1)
        ELSE IF At(t, lo.pos) # "," THEN NoRead
        ELSE IF At(t, lo.pos + 1) = "}" THEN Read(TRUE, Repeat(lo.value, -1, atom), lo.pos + 2)
        ELSE LET hi == ReadNumber(t, lo.pos + 1, None)
             IN  IF hi.ok /\ At(t, hi.pos) = "}"
                   THEN Read(TRUE, Repeat(lo.value, hi.value, atom), hi.pos + 1)
                   ELSE NoRead

\* The quantifier at position p, if any, applied to atom.
ReadQuantifier(t, p, atom) ==
    CASE At(t, p) = "*" -> Read(TRUE, Unary("OpStar", atom), p + 1)
      [] At(t, p) = "+" -> Read(TRUE, Unary("OpPlus", atom), p + 1)
      [] At(t, p) = "?" -> Read(TRUE, Unary("OpQuest", atom), p + 1)
      [] At(t, p) = "{" -> ReadBraces(t, p, atom)
      [] OTHER -> Read(TRUE, atom, p)

Whitespace == {"\n", "\r"}

Singles(chars) ==
    Flatten([i \in 1..Len(CharOrder) |->
        IF CharOrder[i] \in chars THEN <<CharOrder[i], CharOrder[i]>> ELSE <<>>])

\* The ranges \c stands for inside a class.
ClassEscape(c) ==
    CASE c = "r" -> <<"\r", "\r">>
      [] c = "n" -> <<"\n", "\n">>
      [] c = "s" -> Singles(Whitespace)
      [] c = "S" -> Singles({CharOrder[i] : i \in 1..Len(CharOrder)} \ Whitespace)
      [] OTHER -> <<c, c>>

RECURSIVE ReadClass(_, _, _)
\* The items of a class from position p to its `]`; acc holds the ranges so far.
ReadClass(t, p, acc) ==
    LET c == At(t, p)
    IN  CASE c = "" -> NoRead
          [] c = "]" -> Read(TRUE, Node("OpCharClass", acc, <<>>, 0, 0), p + 1)
          [] c = "\\" ->
                IF At(t, p + 1) = "" THEN NoRead
                ELSE ReadClass(t, p + 2, acc \o ClassEscape(t[p + 1]))
          [] OTHER ->
                IF At(t, p + 1) = "-" /\ At(t, p + 2) \notin {"", "]"}
                  THEN ReadClass(t, p + 3, acc \o <<c, t[p + 2]>>)
                  ELSE ReadClass(t, p + 1, acc \o <<c, c>>)

RECURSIVE ReadDisjunction(_, _), ReadAlternatives(_, _, _), ReadAlternative(_, _, _), ReadAtom(_, _)

ReadAtom(t, p) ==
    LET c == At(t, p)
    IN  CASE c = "." -> Read(TRUE, Leaf("OpAnyCharNotNL"), p + 1)
          [] c = "^" -> Read(TRUE, Leaf("OpBeginText"), p + 1)
          [] c = "$" -> Read(TRUE, Leaf("OpEndText"), p + 1)
          [] c = "\\" ->
                IF p + 1 <= Len(t) THEN Read(TRUE, Literal(<<t[p + 1]>>), p + 2) ELSE NoRead
          [] c = "(" ->
                LET group == At(t, p + 1) = "?" /\ At(t, p + 2) = ":"
                    inner == ReadDisjunction(t, IF group THEN p + 3 ELSE p + 1)
                IN  IF inner.ok /\ At(t, inner.pos) = ")"
                      THEN Read(TRUE,
                                IF group THEN inner.node ELSE Unary("OpCapture", inner.node),
                                inner.pos + 1)
                      ELSE NoRead
          [] c = "[" -> ReadClass(t, p + 1, <<>>)
          [] c \in Meta \cup {""} -> NoRead
          [] OTHER -> Read(TRUE, Literal(<<c>>), p + 1)

\* Quantified atoms up to a `|`, a `)` or the end; acc holds those read so far.
ReadAlternative(t, p, acc) ==
    IF At(t, p) \in {"", "|", ")"}
      THEN Read(TRUE,
                IF Len(acc) = 0 THEN Leaf("OpEmptyMatch")
                ELSE IF Len(acc) = 1 THEN acc[1] ELSE Nary("OpConcat", acc),
                p)
      ELSE LET atom == ReadAtom(t, p)
               term == IF atom.ok THEN ReadQuantifier(t, atom.pos, atom.node) ELSE NoRead
           IN  IF term.ok THEN ReadAlternative(t, term.pos, Append(acc, term.node)) ELSE NoRead

ReadAlternatives(t, p, acc) ==
    LET alt == ReadAlternative(t, p, <<>>)
    IN  IF ~alt.ok THEN NoRead
        ELSE IF At(t, alt.pos) = "|" THEN ReadAlternatives(t, alt.pos + 1, Append(acc, alt.node))
        ELSE Read(TRUE,
                  IF acc = <<>> THEN alt.node ELSE Nary("OpAlternate", Append(acc, alt.node)),
                  alt.pos)

ReadDisjunction(t, p) == ReadAlternatives(t, p, <<>>)

\* The whole text read as one pattern.
ReadPattern(t) ==
    LET whole == ReadDisjunction(t, 1)
    IN  IF whole.ok /\ whole.pos = Len(t) + 1 THEN whole ELSE NoRead

(***************************************************************************)
(* Bounded families of syntax trees, by number of nodes.                   *)
(***************************************************************************)
MaxNodes == 3

RECURSIVE Forests(_, _)
\* The sequences of trees with total nodes in all; sized[k] holds the trees of k nodes.
Forests(sized, total) ==
    IF total = 0 THEN {<<>>}
    ELSE UNION {{<<t>> \o f : t \in sized[k], f \in Forests(sized, total - k)} : k \in 1..total}

\* The trees of Len(sized) + 1 nodes.
Grow(sized, leaves, unary, repeats) ==
    LET n == Len(sized)
    IN  IF n = 0 THEN leaves
        ELSE {Unary(op, t) : op \in unary, t \in sized[n]}
             \cup {Repeat(r[1], r[2], t) : r \in repeats, t \in sized[n]}
             \cup {Nary(op, f) : op \in {"OpConcat", "OpAlternate"},
                                 f \in {g \in Forests(sized, n) : Len(g) >= 2}}

RECURSIVE Sized(_, _, _, _, _)
Sized(sized, leaves, unary, repeats, n) ==
    IF Len(sized) >= n THEN sized
    ELSE Sized(Append(sized, Grow(sized, leaves, unary, repeats)), leaves, unary, repeats, n)

\* The trees of at most n nodes over the given leaves and one-child operators.
TreesUpTo(leaves, unary, repeats, n) ==
    LET sized == Sized(<<>>, leaves, unary, repeats, n) IN UNION {sized[k] : k \in 1..n}

\* (Min, Max) of the bounded repeats: {2}, {0,} and {1,12}.
RepeatBounds == {<<2, 2>>, <<0, -1>>, <<1, 12>>}

AllLeaves ==
    { Literal(<<"a">>), Literal(<<"a", "b">>), CharClass("a", "b"),
      Leaf("OpAnyCharNotNL"), Leaf("OpAnyChar"), Leaf("OpBeginLine"),
      Leaf("OpEndLine"), Leaf("OpBeginText"), Leaf("OpEndText") }

Lit(c) == Literal(<<c>>)

\* Every tree of at most MaxNodes nodes over all the operators the writer
\* distinguishes.
SmallTrees ==
    TreesUpTo(AllLeaves, {"OpCapture", "OpStar", "OpPlus", "OpQuest"}, RepeatBounds, MaxNodes)

\* Every tree of at most MaxNodes + 2 nodes over two letters, for the nesting
\* of groups, quantifiers, concatenations and alternations.
NestedTrees ==
    TreesUpTo({Lit("a"), Lit("b")}, {"OpCapture", "OpStar", "OpQuest"}, {}, MaxNodes + 2)

\* Scenario 6 of the specification, and trees deeper than the families.
ExampleTrees ==
    { Nary("OpConcat", <<Lit("x"), Nary("OpAlternate", <<Lit("a"), Lit("b")>>), Lit("y")>>),
      Nary("OpConcat", <<Leaf("OpBeginText"),
                         Unary("OpStar", Nary("OpConcat", <<Lit("a"),
                             Nary("OpAlternate", <<Lit("a"), Lit("b")>>)>>)),
                         Leaf("OpEndText")>>),
      Nary("OpAlternate", <<Nary("OpConcat", <<Lit("a"), Unary("OpPlus", Literal(<<"a", "b">>))>>),
                            Repeat(1, 2, Unary("OpCapture",
                                Nary("OpAlternate", <<Lit("b"), Leaf("OpEmptyMatch")>>)))>>),
      Nary("OpConcat", <<Unary("OpQuest", Lit("+")), Literal(<<"a", ".">>)>>) }

RegexTrees == SmallTrees \cup NestedTrees \cup ExampleTrees

RECURSIVE OpsOf(_)
OpsOf(e) == {e.Op} \cup UNION {OpsOf(e.Sub[k]) : k \in 1..Len(e.Sub)}

\* The operators a pattern can hold in both dialects; the line anchors exist in the
\* source dialect under its inline flag (?m) only, which the target dialect lacks.
CommonOps ==
    { "OpLiteral", "OpCharClass", "OpEmptyMatch", "OpAnyCharNotNL", "OpAnyChar",
      "OpBeginText", "OpEndText", "OpCapture",
      "OpStar", "OpPlus", "OpQuest", "OpRepeat", "OpConcat", "OpAlternate" }

(***************************************************************************)
(* internal/jsonschema: schema nodes and their constructors.               *)
(***************************************************************************)
GenericSchema ==
    [ Type |-> "", Title |-> "", Const |-> None, Enum |-> <<>>, Pattern |-> None,
      MinLength |-> None, MaxLength |-> None, Format |-> "",
      AllOf |-> <<>>, AnyOf |-> <<>>, OneOf |-> <<>>, Not |-> None ]

NewStringSchema == [GenericSchema EXCEPT !.Type = "string"]
NewBooleanSchema == [GenericSchema EXCEPT !.Type = "boolean"]
Not(schema) == [GenericSchema EXCEPT !.Not = Some(schema)]
AnyOf(schemas) == [GenericSchema EXCEPT !.AnyOf = schemas]
AllOf(schemas) == [GenericSchema EXCEPT !.AllOf = schemas]

\* A (schema, required) pair.
Pair(schema, required) == [schema |-> schema, required |-> required]

RECURSIVE Accepts(_, _)
\* Whether a string document validates against a schema: oneOf asks for exactly
\* one member, anyOf for at least one, allOf for every one; a pattern is searched
\* for in the document.
Accepts(schema, doc) ==
    /\ schema.Pattern # None =>
          LET read == ReadPattern(schema.Pattern[1]) IN read.ok /\ MatchString(read.node, doc)
    /\ schema.Const # None => doc = schema.Const[1]
    /\ Len(schema.Enum) > 0 => \E i \in 1..Len(schema.Enum) : schema.Enum[i] = doc
    /\ schema.MinLength # None => Len(doc) >= schema.MinLength[1]
    /\ schema.MaxLength # None => Len(doc) <= schema.MaxLength[1]
    /\ \A i \in 1..Len(schema.AllOf) : Accepts(schema.AllOf[i], doc)
    /\ Len(schema.AnyOf) > 0 => \E i \in 1..Len(schema.AnyOf) : Accepts(schema.AnyOf[i], doc)
    /\ Len(schema.OneOf) > 0 =>
          Cardinality({i \in 1..Len(schema.OneOf) : Accepts(schema.OneOf[i], doc)}) = 1
    /\ schema.Not # None => ~Accepts(schema.Not[1], doc)

(***************************************************************************)
(* schemaForBool, lines 46-59.  rules is None for a nil rule set.          *)
(***************************************************************************)
BoolRequired(rules) == rules # None /\ rules[1].Const # None

schemaForBool(rules) ==
    Pair(IF rules # None /\ rules[1].Const # None
           THEN [NewBooleanSchema EXCEPT !.Const = rules[1].Const]
           ELSE NewBooleanSchema,
         BoolRequired(rules))

(***************************************************************************)
(* schemaForBytes, lines 61-89.                                            *)
(***************************************************************************)
StandardPattern ==
    <<"^", "[", "\\", "r", "\\", "n", "A", "-", "Z", "a", "-", "z", "0", "-", "9", "+", "/",
      "]", "*", "$">>

UrlSafePattern ==
    <<"^", "[", "\\", "r", "\\", "n", "A", "-", "Z", "a", "-", "z", "0", "-", "9", "_", "-",
      "]", "*", "$">>

BytesSchema ==
    LET standard == [NewStringSchema EXCEPT !.Title = "Standard base64 encoding",
                                            !.Pattern = Some(StandardPattern)]
        urlSafe == [NewStringSchema EXCEPT !.Title = "URL-safe base64 encoding",
                                           !.Pattern = Some(UrlSafePattern)]
    IN  [NewStringSchema EXCEPT !.OneOf = <<standard, urlSafe>>]

\* A translator that takes any length rule to make the field required.
BytesRequiredByLength(rules, ignoreEmpty) ==
    /\ rules # None
    /\ ~ignoreEmpty
    /\ \/ rules[1].MinLen # None
       \/ rules[1].MaxLen # None
       \/ rules[1].Len # None

BytesRequired(rules, ignoreEmpty) ==
    /\ rules # None
    /\ ~ignoreEmpty
    /\ \/ Len(rules[1].Const) > 0
       \/ Len(rules[1].Contains) > 0
       \/ Len(rules[1].In) > 0
       \/ rules[1].MinLen # None
       \/ rules[1].Pattern # None
       \/ Len(rules[1].Prefix) > 0
       \/ Len(rules[1].Suffix) > 0
       \/ rules[1].WellKnown # None

schemaForBytes(rules, ignoreEmpty) == Pair(BytesSchema, BytesRequired(rules, ignoreEmpty))

(***************************************************************************)
(* schemaForString, lines 91-205.  The locals are st.schema (the base      *)
(* schema, which is also schemas[0]), st.schemas (the fragments appended   *)
(* after it), st.patterns and st.required.  Each rule is one operator, in  *)
(* the order of the code.                                                  *)
(***************************************************************************)
StringLocals ==
    [schema |-> NewStringSchema, schemas |-> <<>>, patterns |-> <<>>, required |-> FALSE]

\* required = !ignoreEmpty
Require(l, ignoreEmpty) == [l EXCEPT !.required = ~ignoreEmpty]

AddPattern(l, pattern) == [l EXCEPT !.patterns = Append(@, pattern)]
AddSchema(l, schema) == [l EXCEPT !.schemas = Append(@, schema)]

RuleConst(l, rules, ignoreEmpty) ==
    IF rules.Const # None
      THEN Require([l EXCEPT !.schema.Const = rules.Const], ignoreEmpty)
      ELSE l

RuleContains(l, rules, ignoreEmpty) ==
    IF rules.Contains # None
      THEN Require(AddPattern(l, QuoteMeta(rules.Contains[1])), ignoreEmpty)
      ELSE l

RuleIn(l, rules, ignoreEmpty) ==
    IF Len(rules.In) > 0
      THEN Require([l EXCEPT !.schema.Enum = rules.In], ignoreEmpty)
      ELSE l

RuleLen(l, rules, ignoreEmpty) ==
    IF rules.Len # None
      THEN Require([l EXCEPT !.schema.MaxLength = rules.Len, !.schema.MinLength = rules.Len],
                   ignoreEmpty)
      ELSE l

RuleLenBytes(l, rules, ignoreEmpty) ==
    IF rules.LenBytes # None \/ rules.MinBytes # None THEN Require(l, ignoreEmpty) ELSE l

RuleMaxLen(l, rules, ignoreEmpty) ==
    IF rules.MaxLen # None THEN [l EXCEPT !.schema.MaxLength = rules.MaxLen] ELSE l

RuleMinLen(l, rules, ignoreEmpty) ==
    IF rules.MinLen # None
      THEN Require([l EXCEPT !.schema.MinLength = rules.MinLen], ignoreEmpty)
      ELSE l

RuleNotContains(l, rules, ignoreEmpty) ==
    IF rules.NotContains # None
      THEN AddSchema(l, Not([NewStringSchema EXCEPT
                               !.Pattern = Some(QuoteMeta(rules.NotContains[1]))]))
      ELSE l

RuleNotIn(l, rules, ignoreEmpty) ==
    IF Len(rules.NotIn) > 0
      THEN AddSchema(l, Not([NewStringSchema EXCEPT !.Enum = rules.NotIn]))
      ELSE l

RulePrefix(l, rules, ignoreEmpty) ==
    IF rules.Prefix # None
      THEN Require(AddPattern(l, <<"^">> \o QuoteMeta(rules.Prefix[1])), ignoreEmpty)
      ELSE l

RuleSuffix(l, rules, ignoreEmpty) ==
    IF rules.Suffix # None
      THEN Require(AddPattern(l, QuoteMeta(rules.Suffix[1]) \o <<"$">>), ignoreEmpty)
      ELSE l

\* schemaForStringFormats, lines 207-218
schemaForStringFormats(formats) ==
    AnyOf([i \in 1..Len(formats) |-> [NewStringSchema EXCEPT !.Format = formats[i]]])

RuleWellKnown(l, rules, ignoreEmpty) ==
    IF rules.WellKnown = None THEN l
    ELSE LET kind == rules.WellKnown[1]
             formatted ==
                CASE kind = "Address" ->
                        AddSchema(l, schemaForStringFormats(<<"hostname", "ipv4", "ipv6">>))
                  [] kind = "Email" -> [l EXCEPT !.schema.Format = "email"]
                  [] kind = "Hostname" -> [l EXCEPT !.schema.Format = "hostname"]
                  [] kind = "Ip" -> AddSchema(l, schemaForStringFormats(<<"ipv4", "ipv6">>))
                  [] kind = "Ipv4" -> [l EXCEPT !.schema.Format = "ipv4"]
                  [] kind = "Ipv6" -> [l EXCEPT !.schema.Format = "ipv6"]
                  [] kind = "Uri" -> [l EXCEPT !.schema.Format = "uri"]
                  [] kind = "UriRef" -> [l EXCEPT !.schema.Format = "uri-reference"]
                  [] OTHER -> l
         IN  Require(formatted, ignoreEmpty)

\* Lines 99-144: the rules before Pattern.
RulesBeforePattern(rules, ignoreEmpty) ==
    IF rules = None THEN StringLocals
    ELSE LET r == rules[1]
             l1 == RuleConst(StringLocals, r, ignoreEmpty)
             l2 == RuleContains(l1, r, ignoreEmpty)
             l3 == RuleIn(l2, r, ignoreEmpty)
             l4 == RuleLen(l3, r, ignoreEmpty)
             l5 == RuleLenBytes(l4, r, ignoreEmpty)
             l6 == RuleMaxLen(l5, r, ignoreEmpty)
             l7 == RuleMinLen(l6, r, ignoreEmpty)
             l8 == RuleNotContains(l7, r, ignoreEmpty)
         IN  RuleNotIn(l8, r, ignoreEmpty)

\* Lines 148-150: the effect of the oracle's answer.
\* A translator that does not consult the oracle's answer.
RulePatternAlwaysRequired(l, matchesEmpty, ignoreEmpty) == Require(l, ignoreEmpty)

RulePatternRequired(l, matchesEmpty, ignoreEmpty) ==
    IF ~matchesEmpty THEN Require(l, ignoreEmpty) ELSE l

\* Lines 153-192: the rules after Pattern.
RulesAfterPattern(l, rules, ignoreEmpty) ==
    IF rules = None THEN l
    ELSE LET r == rules[1]
             l1 == RulePrefix(l, r, ignoreEmpty)
             l2 == RuleSuffix(l1, r, ignoreEmpty)
         IN  RuleWellKnown(l2, r, ignoreEmpty)

\* A merge that keeps the first pattern on the base schema whatever their number.
MergePatternsFirstToBase(l) ==
    IF Len(l.patterns) >= 1
      THEN [l EXCEPT !.schema.Pattern = Some(l.patterns[1]),
                     !.schemas = @ \o [i \in 1..Len(l.patterns) - 1 |->
                                    [NewStringSchema EXCEPT !.Pattern = Some(l.patterns[i + 1])]]]
      ELSE l

\* Lines 194-202: one pattern goes to the base schema, several become schemas.
MergePatterns(l) ==
    IF Len(l.patterns) = 1
      THEN [l EXCEPT !.schema.Pattern = Some(l.patterns[1])]
      ELSE [l EXCEPT !.schemas =
                @ \o [i \in 1..Len(l.patterns) |->
                        [NewStringSchema EXCEPT !.Pattern = Some(l.patterns[i])]]]

\* Line 204
StringResult(l) == Pair(AllOf(<<l.schema>> \o l.schemas), l.required)

\* matchesEmptyString, lines 298-303, for a pattern that compiled to e.
matchesEmptyString(e) == MatchString(e, <<>>)

(***************************************************************************)
(* The arguments of schemaForScalar.                                       *)
(***************************************************************************)
NumericKinds == {"DoubleT", "Int32T"}
ScalarKinds == NumericKinds \cup {"BoolT", "BytesT", "StringT", "EnumT", "MessageT"}

BoolRuleSets == [Const : {None, Some(TRUE), Some(FALSE)}]

Opt(values) == {None} \cup {Some(v) : v \in values}

\* The most rules one rule set of the model carries.
MaxRules == 5

BytesRuleSetsAll ==
    [ Const : {<<>>, <<"a">>}, Contains : {<<>>, <<"a">>}, In : {<<>>, << <<"a">> >>},
      Len : Opt({1}), MaxLen : Opt({2}), MinLen : Opt({1}), NotIn : {<<>>, << <<"b">> >>},
      Pattern : Opt({<<"a", "+">>}), Prefix : {<<>>, <<"a">>}, Suffix : {<<>>, <<"b">>},
      WellKnown : Opt({"Ip", "Ipv4", "Ipv6"}) ]

BytesRuleCount(r) ==
    Cardinality({f \in {"Const", "Contains", "In", "NotIn", "Prefix", "Suffix"} : Len(r[f]) > 0})
    + Cardinality({f \in {"Len", "MaxLen", "MinLen", "Pattern", "WellKnown"} : r[f] # None})

BytesRuleSets == {r \in BytesRuleSetsAll : BytesRuleCount(r) <= MaxRules}

\* What syntax.Parse makes of a Pattern rule: an error, or the tree of the pattern.
Unparsable == [err |-> TRUE, expression |-> Leaf("OpNoMatch")]
Parsed(e) == [err |-> FALSE, expression |-> e]

PatternInputs ==
    { Unparsable,                                                \* (
      Parsed(Unary("OpPlus", Lit("a"))),                         \* a+
      Parsed(Unary("OpStar", Lit("a"))),                         \* a*
      Parsed(Nary("OpConcat", <<Leaf("OpBeginText"), Lit("b"),   \* ^b(?:ab|c)$
                 Nary("OpAlternate", <<Literal(<<"a", "b">>), Lit("c")>>),
                 Leaf("OpEndText")>>)) }

Sizes == {1, 2}

StringRuleSetsAll ==
    [ Const : Opt({<<"a">>}), Contains : Opt({<<"a", ".">>}), In : {<<>>, << <<"a">>, <<"b">> >>},
      Len : Opt(Sizes), LenBytes : Opt({1}), MinBytes : Opt({1}),
      MaxLen : Opt(Sizes), MinLen : Opt(Sizes),
      NotContains : Opt({<<"b">>}), NotIn : {<<>>, << <<"c">> >>},
      Pattern : Opt(PatternInputs),
      Prefix : Opt({<<"a", "b", "c">>}), Suffix : Opt({<<"x", "y", "z">>}),
      WellKnown : Opt({"Address", "Email", "Hostname", "Ip", "Ipv4", "Ipv6", "Uri", "UriRef"}) ]

StringRuleCount(r) ==
    Cardinality({f \in {"In", "NotIn"} : Len(r[f]) > 0})
    + Cardinality({f \in {"Const", "Contains", "Len", "LenBytes", "MinBytes", "MaxLen", "MinLen",
                          "NotContains", "Pattern", "Prefix", "Suffix", "WellKnown"} :
                     r[f] # None})

StringRuleSets == {r \in StringRuleSetsAll : StringRuleCount(r) <= MaxRules}

\* FieldConstraints: nil, or the ignore-empty flag and the rules of the field's type,
\* None when the constraints carry no rules for that type.
ConstraintsOf(ruleSets) ==
    {None} \cup {Some([IgnoreEmpty |-> ie, Rules |-> r]) : ie \in BOOLEAN, r \in Opt(ruleSets)}

ConstraintsFor(kind) ==
    CASE kind = "BoolT" -> ConstraintsOf(BoolRuleSets)
      [] kind = "BytesT" -> ConstraintsOf(BytesRuleSets)
      [] kind = "StringT" -> ConstraintsOf(StringRuleSets)
      [] OTHER -> ConstraintsOf({})

\* Lines 25-28
IgnoreEmpty == IF constraints # None THEN constraints[1].IgnoreEmpty ELSE FALSE

\* constraints.GetBool(), GetBytes(), GetString_(): nil for nil constraints.
GetRules == IF constraints # None THEN constraints[1].Rules ELSE None

\* The Pattern rule of the string rules, None when there is none.
PatternRule == IF GetRules # None THEN GetRules[1].Pattern ELSE None

(***************************************************************************)
(* schemaForScalar, lines 19-44, and the steps of schemaForString at which *)
(* the call may end in a fatal report.                                     *)
(***************************************************************************)
Init ==
    /\ pc = "schemaForScalar"
    /\ scalar \in ScalarKinds
    /\ constraints \in ConstraintsFor(scalar)
    /\ st = StringLocals
    /\ ret = None /\ failure = None /\ oracle = <<>>
    /\ expression = Leaf("OpNoMatch") /\ text = <<>> /\ probe = <<>>

Return(pair) ==
    /\ ret' = Some(pair)
    /\ pc' = "done"

\* A report that lets the call go on to return an empty schema.
FailAndReturn(message) ==
    /\ failure' = Some(message)
    /\ Return(Pair(GenericSchema, FALSE))

\* m.Failf, m.CheckErr with an error: the report ends the run.
Fail(message) ==
    /\ failure' = Some(message)
    /\ pc' = "aborted"
    /\ UNCHANGED ret

\* Line 22: the numeric translator is another file's; its result is not modelled.
ScalarNumeric ==
    /\ pc = "schemaForScalar"
    /\ scalar \in NumericKinds
    /\ \E required \in BOOLEAN : Return(Pair(GenericSchema, required))
    /\ UNCHANGED <<scalar, constraints, st, failure, oracle, expression, text, probe>>

ScalarBool ==
    /\ pc = "schemaForScalar"
    /\ scalar = "BoolT"
    /\ Return(schemaForBool(GetRules))
    /\ UNCHANGED <<scalar, constraints, st, failure, oracle, expression, text, probe>>

ScalarBytes ==
    /\ pc = "schemaForScalar"
    /\ scalar = "BytesT"
    /\ Return(schemaForBytes(GetRules, IgnoreEmpty))
    /\ UNCHANGED <<scalar, constraints, st, failure, oracle, expression, text, probe>>

\* Lines 38 and 91-145: schemaForString up to the Pattern rule.
ScalarString ==
    /\ pc = "schemaForScalar"
    /\ scalar = "StringT"
    /\ st' = RulesBeforePattern(GetRules, IgnoreEmpty)
    /\ pc' = IF PatternRule # None THEN "makeRegexp" ELSE "afterPattern"
    /\ UNCHANGED <<scalar, constraints, ret, failure, oracle, expression, text, probe>>

\* Lines 40-42
ScalarUnexpected ==
    /\ pc = "schemaForScalar"
    /\ scalar \notin NumericKinds \cup {"BoolT", "BytesT", "StringT"}
    /\ Fail(<<"unexpected scalar type", scalar>>)
    /\ UNCHANGED <<scalar, constraints, st, oracle, expression, text, probe>>

\* Lines 222-223: the pattern does not parse.
MakeRegexpFails ==
    /\ pc = "makeRegexp"
    /\ PatternRule[1].err
    /\ Fail(<<"failed to parse regular expression">>)
    /\ UNCHANGED <<scalar, constraints, st, oracle, expression, text, probe>>

\* Lines 147 and 220-228: the pattern parses and is rewritten.
MakeRegexp ==
    /\ pc = "makeRegexp"
    /\ ~PatternRule[1].err
    /\ expression' = PatternRule[1].expression
    /\ text' = writeECMAScriptCompatibleRegexp(PatternRule[1].expression)
    /\ st' = AddPattern(st, text')
    /\ pc' = "matchesEmptyString"
    /\ UNCHANGED <<scalar, constraints, ret, failure, oracle, probe>>

\* Lines 148-150 and 298-303: the oracle answers.
MatchesEmptyString ==
    /\ pc = "matchesEmptyString"
    /\ oracle' = Append(oracle, PatternRule[1])
    /\ st' = RulePatternRequired(st, matchesEmptyString(PatternRule[1].expression), IgnoreEmpty)
    /\ pc' = "afterPattern"
    /\ UNCHANGED <<scalar, constraints, ret, failure, expression, text, probe>>

\* Line 301: regexp.MatchString returns an error.
MatchesEmptyStringFails ==
    /\ pc = "matchesEmptyString"
    /\ oracle' = Append(oracle, PatternRule[1])
    /\ Fail(<<"failed to check if pattern matches empty string">>)
    /\ UNCHANGED <<scalar, constraints, st, expression, text, probe>>

\* Lines 153-204
StringRest ==
    /\ pc = "afterPattern"
    /\ st' = MergePatterns(RulesAfterPattern(st, GetRules, IgnoreEmpty))
    /\ Return(StringResult(st'))
    /\ UNCHANGED <<scalar, constraints, failure, oracle, expression, text, probe>>

Next ==
    \/ ScalarNumeric
    \/ ScalarBool
    \/ ScalarBytes
    \/ ScalarString
    \/ ScalarUnexpected
    \/ MakeRegexpFails
    \/ MakeRegexp
    \/ MatchesEmptyString
    \/ MatchesEmptyStringFails
    \/ StringRest

Spec == Init /\ [][Next]_vars

(***************************************************************************)
(* schemaForBytes with a document offered to the schema it returns.        *)
(***************************************************************************)
BytesProbes == Strings({"a", "+", "_", "!"}, 2)

InitBytes ==
    /\ pc = "schemaForScalar"
    /\ scalar = "BytesT"
    /\ constraints \in ConstraintsFor(scalar)
    /\ probe \in BytesProbes
    /\ st = StringLocals
    /\ ret = None /\ failure = None /\ oracle = <<>>
    /\ expression = Leaf("OpNoMatch") /\ text = <<>>

NextBytes == ScalarBytes

SpecBytes == InitBytes /\ [][NextBytes]_vars

(***************************************************************************)
(* Claims about the translators.                                           *)
(***************************************************************************)
Returned == pc = "done"
Required == ret[1].required
Schema == ret[1].schema

\* C1: for Bool, Bytes and String, a rule set whose IgnoreEmpty flag is true gives
\* required = false, whichever rules it carries.
C1_IgnoreEmptyNeverRequired ==
    (Returned /\ scalar \in {"BoolT", "BytesT", "StringT"} /\ IgnoreEmpty) => ~Required

\* The rules of the claim's list that make a string field required.
Qualifying(r) ==
    \/ r.Const # None \/ r.Contains # None \/ Len(r.In) > 0
    \/ r.Len # None \/ r.LenBytes # None \/ r.MinBytes # None \/ r.MinLen # None
    \/ r.Prefix # None \/ r.Suffix # None \/ r.WellKnown # None
    \/ (r.Pattern # None /\ ~MatchString(r.Pattern[1].expression, <<>>))

\* C2: schemaForString returns required = true exactly when ignoreEmpty is false and
\* a qualifying rule is present; MaxLen, NotContains, NotIn and a Pattern matching
\* the empty string never make the field required nor reset the flag.
C2_StringRequired ==
    (Returned /\ scalar = "StringT") =>
        (Required <=> (~IgnoreEmpty /\ GetRules # None /\ Qualifying(GetRules[1])))

\* The sole rule is a Pattern that matches the empty string, ignoreEmpty is false,
\* and the field is not required.
C2_Witness ==
    /\ Returned /\ scalar = "StringT" /\ ~IgnoreEmpty /\ GetRules # None
    /\ StringRuleCount(GetRules[1]) = 1
    /\ GetRules[1].Pattern # None
    /\ ~Required

\* C3: the bytes schema accepts a document whenever the document matches the
\* standard or the URL-safe base64 pattern, whatever the rule set.
C3_BytesSchemaIsDisjunction ==
    (Returned /\ scalar = "BytesT") =>
        (Accepts(Schema, probe) <=>
            \/ MatchString(ReadPattern(StandardPattern).node, probe)
            \/ MatchString(ReadPattern(UrlSafePattern).node, probe))

\* C4: schemaForBytes returns required = true exactly when the rule set is not nil,
\* ignoreEmpty is false and one of Const, Contains, In (non-empty), MinLen, Pattern,
\* Prefix, Suffix (non-empty) or a well-known format is present.
C4_BytesRequired ==
    (Returned /\ scalar = "BytesT") =>
        (Required <=>
            /\ GetRules # None
            /\ ~IgnoreEmpty
            /\ \/ GetRules[1].Const # <<>> \/ GetRules[1].Contains # <<>>
               \/ GetRules[1].In # <<>> \/ GetRules[1].MinLen # None
               \/ GetRules[1].Pattern # None \/ GetRules[1].Prefix # <<>>
               \/ GetRules[1].Suffix # <<>> \/ GetRules[1].WellKnown # None)

\* Only rules outside the list are present, ignoreEmpty is false, and the field is
\* not required.
C4_Witness ==
    /\ Returned /\ scalar = "BytesT" /\ ~IgnoreEmpty /\ GetRules # None
    /\ GetRules[1].Len # None /\ GetRules[1].MaxLen # None /\ GetRules[1].NotIn # <<>>
    /\ ~Required

\* The pattern fragments of a rule set in the order Contains, Pattern, Prefix,
\* Suffix; written is the rewriter's text for the Pattern rule.
Fragments(r, written) ==
    (IF r.Contains # None THEN <<QuoteMeta(r.Contains[1])>> ELSE <<>>)
    \o (IF r.Pattern # None THEN <<written>> ELSE <<>>)
    \o (IF r.Prefix # None THEN <<<<"^">> \o QuoteMeta(r.Prefix[1])>> ELSE <<>>)
    \o (IF r.Suffix # None THEN <<QuoteMeta(r.Suffix[1]) \o <<"$">>>> ELSE <<>>)

PatternOnly(fragment) == [NewStringSchema EXCEPT !.Pattern = Some(fragment)]

\* The members that follow the base schema, as the claim orders them.
MembersAfterBase(r, fragments) ==
    (IF r.NotContains # None
       THEN <<Not(PatternOnly(QuoteMeta(r.NotContains[1])))>> ELSE <<>>)
    \o (IF Len(r.NotIn) > 0 THEN <<Not([NewStringSchema EXCEPT !.Enum = r.NotIn])>> ELSE <<>>)
    \o (IF r.WellKnown = Some("Address")
          THEN <<AnyOf(<<[NewStringSchema EXCEPT !.Format = "hostname"],
                         [NewStringSchema EXCEPT !.Format = "ipv4"],
                         [NewStringSchema EXCEPT !.Format = "ipv6"]>>)>>
        ELSE IF r.WellKnown = Some("Ip")
          THEN <<AnyOf(<<[NewStringSchema EXCEPT !.Format = "ipv4"],
                         [NewStringSchema EXCEPT !.Format = "ipv6"]>>)>>
        ELSE <<>>)
    \o (IF Len(fragments) >= 2
          THEN [i \in 1..Len(fragments) |-> PatternOnly(fragments[i])]
          ELSE <<>>)

OnlyPrefixAndSuffix(r) ==
    /\ StringRuleCount(r) = 2
    /\ r.Prefix = Some(<<"a", "b", "c">>)
    /\ r.Suffix = Some(<<"x", "y", "z">>)

\* C5: the fragments are collected in the order Contains, Pattern, Prefix, Suffix;
\* a single fragment becomes the base schema's Pattern, two or more become schemas
\* of their own after the Not and format members, and the base stays without
\* Pattern; the result is the AllOf of the base and those members.
C5_PatternMerge ==
    (Returned /\ scalar = "StringT" /\ GetRules # None) =>
        LET r == GetRules[1]
            fragments == Fragments(r, text)
            members == Schema.AllOf
        IN  /\ Len(members) >= 1
            /\ members[1].Type = "string"
            /\ members[1].Pattern = (IF Len(fragments) = 1 THEN Some(fragments[1]) ELSE None)
            /\ Tail(members) = MembersAfterBase(r, fragments)
            /\ OnlyPrefixAndSuffix(r) =>
                  members = << NewStringSchema,
                               PatternOnly(<<"^", "a", "b", "c">>),
                               PatternOnly(<<"x", "y", "z", "$">>) >>

\* A Not member, a format disjunction and all four fragments are returned.
C5_Witness ==
    /\ Returned /\ scalar = "StringT" /\ GetRules # None
    /\ GetRules[1].NotContains # None
    /\ GetRules[1].Contains # None /\ GetRules[1].Pattern # None
    /\ GetRules[1].Prefix # None /\ GetRules[1].Suffix # None
    /\ Len(Schema.AllOf) = 6

\* C7: a call that fails returns no pair: an unexpected kind is reported with its
\* name; a Pattern that does not parse ends the call before the oracle is invoked;
\* a failure of the oracle ends it likewise; nothing runs after a failure, and the
\* oracle is only invoked, once, with the pattern the rewriter has just written.
C7_FailuresAbort ==
    /\ pc = "aborted" => (ret = None /\ failure # None /\ ~ENABLED Next)
    /\ failure # None => pc = "aborted"
    /\ (pc = "aborted" /\ scalar \notin NumericKinds \cup {"BoolT", "BytesT", "StringT"}) =>
          failure = Some(<<"unexpected scalar type", scalar>>)
    /\ (scalar = "StringT" /\ PatternRule # None /\ PatternRule[1].err) =>
          (oracle = <<>> /\ ret = None)
    /\ oracle # <<>> =>
          /\ oracle = <<PatternRule[1]>>
          /\ ~PatternRule[1].err
          /\ text = writeECMAScriptCompatibleRegexp(PatternRule[1].expression)
          /\ \E i \in 1..Len(st.patterns) : st.patterns[i] = text
    /\ (pc = "aborted" /\ oracle # <<>>) =>
          failure = Some(<<"failed to check if pattern matches empty string">>)

\* The rewriter failed on a Pattern that does not parse.
C7_Witness ==
    /\ pc = "aborted"
    /\ failure = Some(<<"failed to parse regular expression">>)
    /\ oracle = <<>>

\* C10: when Len is present the base schema has MinLength = MaxLength = Len,
\* whichever other rules are present.
C10_LenSetsBothBounds ==
    (Returned /\ scalar = "StringT" /\ GetRules # None /\ GetRules[1].Len # None) =>
        /\ Schema.AllOf[1].MinLength = GetRules[1].Len
        /\ Schema.AllOf[1].MaxLength = GetRules[1].Len

(***************************************************************************)
(* The writer alone, on the bounded families of trees.                     *)
(***************************************************************************)
InitRegex ==
    /\ pc = "write"
    /\ expression \in RegexTrees
    /\ text = <<>>
    /\ scalar = "StringT" /\ constraints = None /\ st = StringLocals
    /\ ret = None /\ failure = None /\ oracle = <<>> /\ probe = <<>>

WriteRegexp ==
    /\ pc = "write"
    /\ text' = writeECMAScriptCompatibleRegexp(expression)
    /\ pc' = "written"
    /\ UNCHANGED <<scalar, constraints, st, ret, failure, oracle, expression, probe>>

NextRegex == WriteRegexp

SpecRegex == InitRegex /\ [][NextRegex]_vars

\* The documents patterns are tried on: every string of at most three letters, and
\* some with a line feed.
Probes == Strings({"a", "b"}, 3) \cup {<<"\n">>, <<"a", "\n">>, <<"\n", "a">>, <<"a", "\n", "b">>}

SameMatches(e, f) ==
    \A s \in Probes : /\ MatchString(e, s) = MatchString(f, s)
                      /\ FullMatch(e, s) = FullMatch(f, s)

(***************************************************************************)
(* Claims about the writer.                                                *)
(***************************************************************************)
Written(e) == writeECMAScriptCompatibleRegexp(e)

JoinBar(texts) ==
    Flatten([i \in 1..Len(texts) |-> (IF i > 1 THEN <<"|">> ELSE <<>>) \o texts[i]])

ScenarioSix ==
    Nary("OpConcat", <<Lit("x"), Nary("OpAlternate", <<Lit("a"), Lit("b")>>), Lit("y")>>)

\* C8: a concatenation is written as its children in order, each alternation child
\* as (?: ) around its alternatives joined by |, every other child as it is written
\* alone; the concatenation x, (a|b), y is written x(?:a|b)y.
C8_AlternationInConcatGrouped ==
    (pc = "written" /\ expression.Op = "OpConcat") =>
        /\ text = Flatten([i \in 1..Len(expression.Sub) |->
                     LET child == expression.Sub[i]
                     IN  IF child.Op = "OpAlternate"
                           THEN <<"(", "?", ":">>
                                \o JoinBar([k \in 1..Len(child.Sub) |-> Written(child.Sub[k])])
                                \o <<")">>
                           ELSE Written(child)])
        /\ expression = ScenarioSix =>
              text = <<"x", "(", "?", ":", "a", "|", "b", ")", "y">>

C8_Witness ==
    /\ pc = "written"
    /\ expression = ScenarioSix
    /\ text = <<"x", "(", "?", ":", "a", "|", "b", ")", "y">>

\* d is the decimal numeral of n.
Decimal(d, n) ==
    /\ Len(d) >= 1
    /\ \A i \in 1..Len(d) : IsDigit(d[i])
    /\ Len(d) > 1 => d[1] # "0"
    /\ ReadNumber(d, 1, None).value = n

\* q is {min}, {min,} or {min,max} as the claim gives them.
Braces(q, min, max) ==
    /\ Len(q) >= 3 /\ q[1] = "{" /\ q[Len(q)] = "}"
    /\ LET inner == SubSeq(q, 2, Len(q) - 1)
       IN  IF max = min THEN Decimal(inner, min)
           ELSE IF max < 0
             THEN inner[Len(inner)] = "," /\ Decimal(SubSeq(inner, 1, Len(inner) - 1), min)
           ELSE \E k \in 1..Len(inner) :
                   /\ inner[k] = ","
                   /\ Decimal(SubSeq(inner, 1, k - 1), min)
                   /\ Decimal(SubSeq(inner, k + 1, Len(inner)), max)

\* C9: a quantifier is written after its operand; the operand is inside (?: ) exactly
\* when it is a star, plus, quest, repeat, concatenation, alternation or a literal of
\* several characters; the quantifier is *, +, ?, {min}, {min,} or {min,max}.
C9_QuantifierAfterOperand ==
    (pc = "written" /\ expression.Op \in Quantifiers) =>
        LET sub == expression.Sub[1]
            grouped ==
                \/ sub.Op \in {"OpStar", "OpPlus", "OpQuest", "OpRepeat", "OpConcat", "OpAlternate"}
                \/ (sub.Op = "OpLiteral" /\ Len(sub.Rune) > 1)
            operand == IF grouped THEN <<"(", "?", ":">> \o Written(sub) \o <<")">>
                       ELSE Written(sub)
            quantifier == SubSeq(text, Len(operand) + 1, Len(text))
        IN  /\ Len(text) > Len(operand)
            /\ SubSeq(text, 1, Len(operand)) = operand
            /\ CASE expression.Op = "OpStar" -> quantifier = <<"*">>
                 [] expression.Op = "OpPlus" -> quantifier = <<"+">>
                 [] expression.Op = "OpQuest" -> quantifier = <<"?">>
                 [] OTHER -> Braces(quantifier, expression.Min, expression.Max)

\* An unbounded repeat of a literal of several characters was written.
C9_Witness ==
    /\ pc = "written"
    /\ expression = Repeat(0, -1, Literal(<<"a", "b">>))
    /\ text = <<"(", "?", ":", "a", "b", ")", "{", "0", ",", "}">>

====
